---- MODULE Spec2Model ----
(***************************************************************************)
(* State-machine model of dummyserver/server.py: the socket-level dummy    *)
(* server harness (SocketServerThread, DelayedSocketServerThread and the   *)
(* SocketDummyServer family), together with the test code that drives it   *)
(* (the caller of start_response_handler, the client connections, the      *)
(* pacing gate) and the socket layer it runs on.                           *)
(***************************************************************************)
EXTENDS Integers, Sequences, FiniteSets, TLC

\* ---------------------------------------------------------------- bounds
\* largest num passed to start_response_handler
MaxNum == 2

\* ------------------------------------------------------ program constants
\* ready_event.wait(5)
WaitTimeout == 5
\* consume_socket(sock, chunks=65536)
chunks == 65536
\* sock.listen(0)
Backlog == 0

None == "None"

\* the harness classes
Base == "SocketDummyServer"
Delayed == "DelayedCloseSocketDummyServer"
IPV4 == "IPV4SocketDummyServer"
FTP == "FTPSocketDummyServer"
Classes == {Base, Delayed, IPV4, FTP}

\* port = None
NoPort == 0

\* byte strings, in units: a default handshake line is one unit, the response
\* of a test is two, a request is the two bytes CR LF
welcome_first_default == <<"220">>
user_resp_default == <<"230">>
type_i_resp_default == <<"200">>
pasv_resp_default == <<"227">>
Lines == {"220", "230", "200", "227"}
Responses == {<<"226", "226+">>}
Requests == {<<"CR", "LF">>}

VARIABLES
    cls,                \* the harness class the test uses
    HAS_IPV6_AND_DNS,   \* module-level capability flag
    client,             \* how the test's client behaves: "free" or "lockstep"
    short_io,           \* recv and send may transfer less than they could
    cls_port,           \* cls.port
    cls_server_thread,  \* cls.server_thread: None or the latest thread object
    cls_socks,          \* cls.socks
    caller,             \* the thread calling start_response_handler
    args,               \* the arguments captured by the socket_handler closure
    thread,             \* the server thread of the latest call
    ready_event,        \* the Event of _start_server, given to the thread
    iter_event,         \* the Event start_response_handler returns
    block_send,         \* the flag of the pacing gate
    released,           \* block_send.set() calls made by the test
    listener,           \* the listening socket of the latest server thread
    open,               \* accepted sockets that are not closed
    conns,              \* the connections made to the latest server
    all_waited,         \* every connection attempt followed a wait on iter_event
    cleaned,            \* cleanup() ran after the latest handler returned
    \* several harness classes, two calling threads
    HAS_IPV6,           \* module-level capability flag
    USE_IPV6,           \* SocketServerThread.USE_IPV6, the class attribute
    class_dict,         \* port, server_thread and socks in each class's __dict__
    callers,            \* the threads calling start_response_handler
    threads             \* the server thread object each of them creates

\* the state of the several-classes view
classvars == <<HAS_IPV6, USE_IPV6, class_dict, callers, threads>>

\* the state of the one-harness view, but for HAS_IPV6_AND_DNS
harnessvars == <<cls, client, short_io, cls_port, cls_server_thread, cls_socks,
                 caller, args, thread, ready_event, iter_event, block_send,
                 released, listener, open, conns, all_waited, cleaned>>

vars == <<HAS_IPV6_AND_DNS, harnessvars, classvars>>

\* what no step of the one-harness view changes
config == <<cls, HAS_IPV6_AND_DNS, client, short_io, classvars>>

\* ---------------------------------------------------------------- helpers
Min(a, b) == IF a < b THEN a ELSE b

Range(s) == {s[k] : k \in 1..Len(s)}

Take(s, n) == SubSeq(s, 1, n)

Drop(s, n) == SubSeq(s, n + 1, Len(s))

\* bytes.endswith(b'\r\n')
EndsWithCRLF(b) ==
    /\ Len(b) >= 2
    /\ b[Len(b) - 1] = "CR"
    /\ b[Len(b)] = "LF"

DelayedClasses == {Delayed, FTP}

\* server_thread_class of a harness class
server_thread_class(c) ==
    IF c \in DelayedClasses THEN "DelayedSocketServerThread"
    ELSE "SocketServerThread"

NoThread ==
    [pc |-> "none", class |-> None, USE_IPV6 |-> FALSE, port |-> NoPort,
     socks |-> <<>>, i |-> 0, eof |-> FALSE, exc |-> FALSE]

NoListener == [state |-> "none", family |-> None, port |-> NoPort]

NoArgs ==
    [num |-> 1, gated |-> FALSE, response |-> <<>>, welcome_first |-> <<>>,
     user_resp |-> <<>>, type_i_resp |-> <<>>, pasv_resp |-> <<>>]

\* where a server thread that has ended stands: run() returned, or an
\* exception left it
EndedPcs == {"done", "bind_raised", "listen_raised", "io_raised"}

\* socks = [0] in place of socks = []: a list holding an object that is not a
\* socket (sockets are numbered from 1)
NoSocks_NotASocket == <<0>>

\* socks = []
NoSocks == <<>>

\* the local list socks of socket_handler after i iterations: the socket
\* accepted for connection k stands for itself
HandlerSocks(i) == [k \in 1..i |-> k]

\* ------------------------------------------------- several harness classes
\* CopyOfSocketDummyServer = type('CopyOfSocketDummyServer', ...)
Copy == "CopyOfSocketDummyServer"

HarnessClasses == Classes \cup {Copy}

Object == "object"

\* the base class of each harness class
Parent(c) ==
    CASE c = Base -> Object
      [] c = Copy -> Object
      [] c = Delayed -> Base
      [] c = IPV4 -> Base
      [] c = FTP -> Delayed

\* an attribute that is not in a class's __dict__
Unset == -1

\* the two threads that call start_response_handler at the same time; the
\* server thread a caller creates, the port that thread is bound to and the
\* list its __init__ makes carry the caller's number
Callers == {1, 2}

\* server_thread = None (and, for socks, the list [] of the class body)
NoServer == 0

Attrs == {"port", "server_thread", "socks"}

\* the class bodies: SocketDummyServer sets the three attributes, the copy
\* has a copy of its __dict__, the subclasses set none of them
ClassDictInit ==
    [c \in HarnessClasses |->
        IF c \in {Base, Copy}
        THEN [port |-> NoPort, server_thread |-> NoServer, socks |-> NoServer]
        ELSE [port |-> Unset, server_thread |-> Unset, socks |-> Unset]]

\* attribute a of class c, found in the __dict__ d of c or of the nearest
\* base class that has it
RECURSIVE LookupIn(_, _, _)
LookupIn(d, c, a) ==
    IF d[c][a] # Unset THEN d[c][a] ELSE LookupIn(d, Parent(c), a)

Lookup(c, a) == LookupIn(class_dict, c, a)

NoCaller == [pc |-> "off", cls |-> None, val |-> NoPort]

NoServerThread ==
    [pc |-> "none", class |-> None, USE_IPV6 |-> "class", family |-> None,
     state |-> "none", port |-> NoPort, ready |-> FALSE, socks |-> NoServer]

\* the module is imported and no thread has called a harness class
ClassesIdle ==
    /\ USE_IPV6 = HAS_IPV6_AND_DNS
    /\ class_dict = ClassDictInit
    /\ threads = [k \in Callers |-> NoServerThread]

\* ------------------------------------------------------------------- Init
InitHarness ==
    /\ HAS_IPV6_AND_DNS \in BOOLEAN
    /\ cls_port = NoPort
    /\ cls_server_thread = None
    /\ cls_socks = NoSocks
    /\ caller = [pc |-> "idle", elapsed |-> 0, prev_port |-> NoPort]
    /\ args = NoArgs
    /\ thread = NoThread
    /\ ready_event = FALSE
    /\ iter_event = FALSE
    /\ block_send = FALSE
    /\ released = 0
    /\ listener = NoListener
    /\ open = {}
    /\ conns = <<>>
    /\ all_waited = TRUE
    /\ cleaned = FALSE

\* any harness class, a client that sends and closes when it likes, on a
\* socket layer that may return short counts
Init ==
    /\ cls \in Classes
    /\ client = "free"
    /\ short_io = TRUE
    /\ InitHarness
    /\ HAS_IPV6 = HAS_IPV6_AND_DNS
    /\ ClassesIdle
    /\ callers = [k \in Callers |-> NoCaller]

\* the FTP harness with a client that answers each scripted line it receives,
\* on a socket layer that transfers everything at once
InitFtp ==
    /\ cls = FTP
    /\ client = "lockstep"
    /\ short_io = FALSE
    /\ InitHarness
    /\ HAS_IPV6 = HAS_IPV6_AND_DNS
    /\ ClassesIdle
    /\ callers = [k \in Callers |-> NoCaller]

\* two threads are about to call start_response_handler, each on its own
\* harness class; the one-harness view is not used
InitClasses ==
    /\ cls = Base
    /\ client = "free"
    /\ short_io = FALSE
    /\ InitHarness
    /\ HAS_IPV6 \in BOOLEAN
    /\ ClassesIdle
    /\ \E c1, c2 \in HarnessClasses :
        /\ c1 # c2
        /\ callers = [k \in Callers |->
                [pc |-> "create", cls |-> IF k = 1 THEN c1 ELSE c2, val |-> NoPort]]

\* two threads are about to call start_response_handler on the same class
InitRace ==
    /\ cls = Base
    /\ client = "free"
    /\ short_io = FALSE
    /\ InitHarness
    /\ HAS_IPV6 \in BOOLEAN
    /\ ClassesIdle
    /\ \E c \in HarnessClasses :
        callers = [k \in Callers |-> [pc |-> "create", cls |-> c, val |-> NoPort]]

\* --------------------------------------------- the caller (the test thread)
\* the handshake payloads a test passes to start_response_handler: the
\* defaults, and for a lockstep client also each of them empty
HandshakeArgs(c) ==
    IF c = FTP /\ client = "free"
    THEN {[welcome_first |-> welcome_first_default, user_resp |-> user_resp_default,
           type_i_resp |-> type_i_resp_default, pasv_resp |-> pasv_resp_default]}
    ELSE IF c = FTP
    THEN {[welcome_first |-> w, user_resp |-> u, type_i_resp |-> t, pasv_resp |-> p] :
            w \in {welcome_first_default, <<>>}, u \in {user_resp_default, <<>>},
            t \in {type_i_resp_default, <<>>}, p \in {pasv_resp_default, <<>>}}
    ELSE {[welcome_first |-> <<>>, user_resp |-> <<>>, type_i_resp |-> <<>>,
           pasv_resp |-> <<>>]}

\* at most one handshake payload is passed empty
Omitted(h) ==
    Cardinality({f \in {"welcome_first", "user_resp", "type_i_resp", "pasv_resp"} :
                    h[f] = <<>>})

CallArgs(c) ==
    {[num |-> n, gated |-> g, response |-> r, welcome_first |-> h.welcome_first,
      user_resp |-> h.user_resp, type_i_resp |-> h.type_i_resp,
      pasv_resp |-> h.pasv_resp] :
        n \in 1..MaxNum, g \in BOOLEAN, r \in Responses,
        h \in {x \in HandshakeArgs(c) : c = FTP => Omitted(x) <= 1}}

\* USE_IPV6 of the thread object a harness class creates
ThreadUseIPv6(c) == IF c = IPV4 THEN FALSE ELSE HAS_IPV6_AND_DNS

\* start_response_handler up to server_thread.start(): the two events are
\* created, the closure captures the arguments, the thread object is stored
\* on the class and started
StartResponseHandler(a) ==
    /\ caller.pc \in {"idle", "returned", "raised"}
    /\ thread.pc \in {"none"} \cup EndedPcs
    /\ args' = a
    /\ iter_event' = FALSE
    /\ ready_event' = FALSE
    /\ block_send' = FALSE
    /\ released' = 0
    /\ thread' = [pc |-> "socket", class |-> server_thread_class(cls),
                  USE_IPV6 |-> ThreadUseIPv6(cls), port |-> NoPort,
                  socks |-> <<>>, i |-> 0, eof |-> FALSE, exc |-> FALSE]
    /\ cls_server_thread' = "thread"
    /\ caller' = [pc |-> "wait", elapsed |-> 0, prev_port |-> cls_port]
    /\ conns' = <<>>
    /\ all_waited' = TRUE
    /\ cleaned' = FALSE
    \* the thread object of the call before is dropped with all it refers to
    /\ open' = open \cap Range(cls_socks)
    /\ listener' = NoListener
    /\ UNCHANGED <<config, cls_port, cls_socks>>

\* a unit of time passes while the caller is in ready_event.wait(5)
Tick ==
    /\ caller.pc = "wait"
    /\ ~ready_event
    /\ caller.elapsed < WaitTimeout
    /\ caller' = [caller EXCEPT !.elapsed = @ + 1]
    /\ UNCHANGED <<config, cls_port, cls_server_thread,
                   cls_socks, args, thread, ready_event, iter_event,
                   block_send, released, listener, open, conns, all_waited, cleaned>>

\* ready_event.wait(5) returns: the event is set or the timeout has passed
WaitReturns ==
    /\ caller.pc = "wait"
    /\ ready_event \/ caller.elapsed = WaitTimeout
    /\ caller' = [caller EXCEPT !.pc = "is_set"]
    /\ UNCHANGED <<config, cls_port, cls_server_thread,
                   cls_socks, args, thread, ready_event, iter_event,
                   block_send, released, listener, open, conns, all_waited, cleaned>>

\* where _start_server goes after recording the port
AfterPort(c) == IF c \in DelayedClasses THEN "socks" ELSE "returned"

\* _start_server without the is_set() test: the port is recorded after the wait
CheckIsSet_NoCheck ==
    /\ caller.pc = "is_set"
    /\ cls_port' = thread.port
    /\ caller' = [pc |-> AfterPort(cls), elapsed |-> 0, prev_port |-> NoPort]
    /\ UNCHANGED <<config, cls_server_thread,
                   cls_socks, args, thread, ready_event, iter_event,
                   block_send, released, listener, open, conns, all_waited, cleaned>>

\* if not ready_event.is_set(): raise ...; cls.port = cls.server_thread.port
CheckIsSet ==
    /\ caller.pc = "is_set"
    /\ IF ~ready_event
       THEN /\ caller' = [caller EXCEPT !.pc = "raised"]
            /\ UNCHANGED cls_port
       ELSE /\ cls_port' = thread.port
            /\ caller' = [pc |-> AfterPort(cls), elapsed |-> 0, prev_port |-> NoPort]
    /\ UNCHANGED <<config, cls_server_thread,
                   cls_socks, args, thread, ready_event, iter_event,
                   block_send, released, listener, open, conns, all_waited, cleaned>>

\* DelayedCloseSocketDummyServer._start_server: cls.socks = cls.server_thread.socks
StoreSocks ==
    /\ caller.pc = "socks"
    /\ cls_socks' = thread.socks
    /\ caller' = [caller EXCEPT !.pc = "returned"]
    /\ UNCHANGED <<config, cls_port, cls_server_thread,
                   args, thread, ready_event, iter_event,
                   block_send, released, listener, open, conns, all_waited, cleaned>>

\* for sock in cls.socks: sock.close(), on the set o of open sockets; closing a
\* socket that is closed already changes nothing
CleanupCloses(o) == o \ Range(cls_socks)

\* DelayedCloseSocketDummyServer.cleanup
Cleanup ==
    /\ cls \in DelayedClasses
    /\ caller.pc \in {"idle", "returned", "raised"}
    /\ open' = CleanupCloses(open)
    /\ cleaned' = (thread.pc = "done")
    /\ UNCHANGED <<config, cls_port, cls_server_thread,
                   cls_socks, caller, args, thread, ready_event, iter_event,
                   block_send, released, listener, conns, all_waited>>

\* the test releases the pacing gate: block_send.set()
ReleaseGate ==
    /\ args.gated
    /\ caller.pc = "returned"
    /\ released < args.num
    /\ block_send' = TRUE
    /\ released' = released + 1
    /\ UNCHANGED <<config, cls_port, cls_server_thread,
                   cls_socks, caller, args, thread, ready_event, iter_event,
                   listener, open, conns, all_waited, cleaned>>

\* --------------------------------------------------- the server thread
\* _start_server with the ready event set before listen() is called
StartServerNext_ReadyBeforeListen(pc) ==
    CASE pc = "socket" -> "bind"
      [] pc = "bind" -> "ready_event"
      [] pc = "ready_event" -> "listen"
      [] pc = "listen" -> "for"

\* SocketServerThread._start_server: the order of its statements
StartServerNext(pc) ==
    CASE pc = "socket" -> "bind"
      [] pc = "bind" -> "listen"
      [] pc = "listen" -> "ready_event"
      [] pc = "ready_event" -> "for"

\* the ports bind((host, 0)) can be given. No earlier server holds a port
\* any more; of the ports of earlier servers only the one left in cls.port
\* can be told from a port never assigned, so the choice is between that
\* one and another one
FreePorts ==
    (IF cls_port = NoPort THEN {} ELSE {cls_port})
        \cup {IF cls_port = 1 THEN 2 ELSE 1}

\* sock = socket.socket(AF_INET6 or AF_INET); setsockopt
ThreadSocket ==
    /\ thread.pc = "socket"
    /\ listener' = [state |-> "created",
                    family |-> IF thread.USE_IPV6 THEN "AF_INET6" ELSE "AF_INET",
                    port |-> NoPort]
    /\ thread' = [thread EXCEPT !.pc = StartServerNext("socket")]
    /\ UNCHANGED <<config, cls_port, cls_server_thread, cls_socks, caller, args,
                   ready_event, iter_event, block_send, released, open,
                   conns, all_waited, cleaned>>

\* bind without self.port = sock.getsockname()[1]
ThreadBind_PortNotReadBack ==
    /\ thread.pc = "bind"
    /\ \/ /\ \E p \in FreePorts :
                /\ listener' = [listener EXCEPT !.state = "bound", !.port = p]
                /\ thread' = [thread EXCEPT !.pc = StartServerNext("bind")]
       \/ /\ thread' = [thread EXCEPT !.pc = "bind_raised"]
          /\ UNCHANGED listener
    /\ UNCHANGED <<config, cls_port, cls_server_thread, cls_socks, caller, args,
                   ready_event, iter_event, block_send, released, open,
                   conns, all_waited, cleaned>>

\* sock.bind((self.host, 0)); self.port = sock.getsockname()[1]
\* bind raises (the thread dies) or the system assigns a free port
ThreadBind ==
    /\ thread.pc = "bind"
    /\ \/ /\ \E p \in FreePorts :
                /\ listener' = [listener EXCEPT !.state = "bound", !.port = p]
                /\ thread' = [thread EXCEPT !.port = p,
                                            !.pc = StartServerNext("bind")]
       \/ /\ thread' = [thread EXCEPT !.pc = "bind_raised"]
          /\ UNCHANGED listener
    /\ UNCHANGED <<config, cls_port, cls_server_thread, cls_socks, caller, args,
                   ready_event, iter_event, block_send, released, open,
                   conns, all_waited, cleaned>>

\* sock.listen(0): raises or the socket starts listening
ThreadListen ==
    /\ thread.pc = "listen"
    /\ \/ /\ listener' = [listener EXCEPT !.state = "listening"]
          /\ thread' = [thread EXCEPT !.pc = StartServerNext("listen")]
       \/ /\ thread' = [thread EXCEPT !.pc = "listen_raised"]
          /\ UNCHANGED listener
    /\ UNCHANGED <<config, cls_port, cls_server_thread, cls_socks, caller, args,
                   ready_event, iter_event, block_send, released, open,
                   conns, all_waited, cleaned>>

\* if self.ready_event: self.ready_event.set()
ThreadReadyEvent ==
    /\ thread.pc = "ready_event"
    /\ ready_event' = TRUE
    /\ thread' = [thread EXCEPT !.pc = StartServerNext("ready_event")]
    /\ UNCHANGED <<config, cls_port, cls_server_thread, cls_socks, caller, args,
                   iter_event, block_send, released, listener, open,
                   conns, all_waited, cleaned>>

\* ------------------------------------------------------ socket_handler
\* socket_handler without block_send.wait()
SocketHandlerScript_NoWait(c) ==
    IF c = FTP
    THEN <<"ready_set", "accept", "welcome", "consume_1", "user", "consume_2",
           "type_i", "consume_3", "pasv", "block_clear", "send", "append">>
    ELSE <<"ready_set", "accept", "consume_1", "block_clear", "send", "append">>

\* the statements of one iteration of socket_handler, in order
SocketHandlerScript(c) ==
    IF c = FTP
    THEN <<"ready_set", "accept", "welcome", "consume_1", "user", "consume_2",
           "type_i", "consume_3", "pasv", "block_wait", "block_clear", "send",
           "append">>
    ELSE <<"ready_set", "accept", "consume_1", "block_wait", "block_clear",
           "send", "append">>

HandlerPcs == Range(SocketHandlerScript(cls)) \cup {"for"}

ConsumePcs == {"consume_1", "consume_2", "consume_3"}

LinePcs == {"welcome", "user", "type_i", "pasv"}

\* the statement after statement pc of the loop body ("for": back to the loop head)
HandlerNext(pc) ==
    LET script == SocketHandlerScript(cls)
        k == CHOOSE j \in 1..Len(script) : script[j] = pc
    IN IF k = Len(script) THEN "for" ELSE script[k + 1]

\* the payload an FTP handshake statement sends
LinePayload(pc) ==
    CASE pc = "welcome" -> args.welcome_first
      [] pc = "user" -> args.user_resp
      [] pc = "type_i" -> args.type_i_resp
      [] pc = "pasv" -> args.pasv_resp

\* connections the listener has handed to accept()
Accepted == {c \in 1..Len(conns) : conns[c].accepted}

\* the connection of the current iteration (after its accept)
Current == thread.i + 1

\* an accept, recv or send that raises is called again
AfterIoError_Retry(pc) == pc

\* where the thread stands after accept, recv or send raised in statement pc:
\* nothing catches the exception, it leaves socket_handler, _handle_socket,
\* _start_server and run
AfterIoError(pc) == "io_raised"

\* the thread after an I/O call of its current statement raised
Raise(t) == [t EXCEPT !.pc = AfterIoError(t.pc), !.exc = TRUE]

\* for _ in range(num): ... return socks
HandlerFor ==
    /\ thread.pc = "for"
    /\ thread' = [thread EXCEPT !.pc =
            IF thread.i < args.num THEN SocketHandlerScript(cls)[1] ELSE "return"]
    /\ UNCHANGED <<config, cls_port, cls_server_thread, cls_socks, caller, args,
                   ready_event, iter_event, block_send, released, listener,
                   open, conns, all_waited, cleaned>>

\* ready_event.set() of the loop body
HandlerReadySet ==
    /\ thread.pc = "ready_set"
    /\ iter_event' = TRUE
    /\ thread' = [thread EXCEPT !.pc = HandlerNext("ready_set")]
    /\ UNCHANGED <<config, cls_port, cls_server_thread, cls_socks, caller, args,
                   ready_event, block_send, released, listener, open,
                   conns, all_waited, cleaned>>

\* sock = listener.accept()[0]: blocks until a connection is queued, and
\* returns it or raises the error the queued connection has met
HandlerAccept ==
    /\ thread.pc = "accept"
    /\ \/ /\ \E c \in 1..Len(conns) :
                /\ ~conns[c].accepted
                /\ \A d \in 1..(c - 1) : conns[d].accepted
                /\ conns' = [conns EXCEPT ![c].accepted = TRUE]
                /\ open' = open \cup {c}
          /\ thread' = [thread EXCEPT !.pc = HandlerNext("accept")]
       \/ /\ \E c \in 1..Len(conns) : ~conns[c].accepted
          /\ thread' = Raise(thread)
          /\ UNCHANGED <<conns, open>>
    /\ UNCHANGED <<config, cls_port, cls_server_thread, cls_socks, caller, args,
                   ready_event, iter_event, block_send, released, listener,
                   all_waited, cleaned>>

\* the byte counts recv or send can return when m bytes could be transferred
Counts(m) == IF short_io THEN 1..m ELSE {m}

\* sock.send(data): the number of bytes sent is returned and not looked at
Send(c, data, n) == [conns EXCEPT ![c].s2c = @ \o Take(data, n)]

\* if welcome_first: sock.send(welcome_first) and the three statements like it
\* send raises only on a connection the client has closed
HandlerSendLine ==
    /\ thread.pc \in LinePcs
    /\ LET data == LinePayload(thread.pc)
       IN \/ /\ IF data = <<>>
                THEN UNCHANGED conns
                ELSE \E n \in Counts(Len(data)) : conns' = Send(Current, data, n)
             /\ thread' = [thread EXCEPT !.pc = HandlerNext(thread.pc)]
          \/ /\ data # <<>>
             /\ conns[Current].closed
             /\ thread' = Raise(thread)
             /\ UNCHANGED conns
    /\ UNCHANGED <<config, cls_port, cls_server_thread, cls_socks, caller, args,
                   ready_event, iter_event, block_send, released, listener,
                   open, all_waited, cleaned>>

\* consume_socket: one sock.recv(chunks) and the test of what it returned
\* recv returns what has arrived, at most chunks bytes, b'' at end of stream,
\* and blocks while nothing has arrived and the peer has not closed; on a
\* connection the client has closed it can raise instead
consume_socket ==
    /\ thread.pc \in ConsumePcs
    /\ LET c == Current
           buf == conns[c].c2s
       IN IF buf # <<>>
          THEN \E n \in Counts(Min(Len(buf), chunks)) :
                /\ conns' = [conns EXCEPT ![c].c2s = Drop(buf, n)]
                /\ thread' = IF EndsWithCRLF(Take(buf, n))
                             THEN [thread EXCEPT !.pc = HandlerNext(thread.pc)]
                             ELSE thread
          ELSE /\ conns[c].closed
               /\ \/ thread' = IF EndsWithCRLF(<<>>)
                                THEN [thread EXCEPT !.pc = HandlerNext(thread.pc)]
                                ELSE [thread EXCEPT !.eof = TRUE]
                  \/ thread' = Raise(thread)
               /\ UNCHANGED conns
    /\ UNCHANGED <<config, cls_port, cls_server_thread, cls_socks, caller, args,
                   ready_event, iter_event, block_send, released, listener,
                   open, all_waited, cleaned>>

\* if block_send: block_send.wait()
HandlerBlockWait ==
    /\ thread.pc = "block_wait"
    /\ IF args.gated
       THEN /\ block_send
            /\ thread' = [thread EXCEPT !.pc = HandlerNext("block_wait")]
       ELSE thread' = [thread EXCEPT !.pc = HandlerNext("block_clear")]
    /\ UNCHANGED <<config, cls_port, cls_server_thread, cls_socks, caller, args,
                   ready_event, iter_event, block_send, released, listener,
                   open, conns, all_waited, cleaned>>

\* block_send.clear()
HandlerBlockClear ==
    /\ thread.pc = "block_clear"
    /\ block_send' = FALSE
    /\ thread' = [thread EXCEPT !.pc = HandlerNext("block_clear")]
    /\ UNCHANGED <<config, cls_port, cls_server_thread, cls_socks, caller, args,
                   ready_event, iter_event, released, listener, open,
                   conns, all_waited, cleaned>>

\* sock.send(response); it raises only on a connection the client has closed
HandlerSend ==
    /\ thread.pc = "send"
    /\ \/ /\ \E n \in Counts(Len(args.response)) :
                conns' = [Send(Current, args.response, n)
                              EXCEPT ![Current].nresp = @ + 1]
          /\ thread' = [thread EXCEPT !.pc = HandlerNext("send")]
       \/ /\ conns[Current].closed
          /\ thread' = Raise(thread)
          /\ UNCHANGED conns
    /\ UNCHANGED <<config, cls_port, cls_server_thread, cls_socks, caller, args,
                   ready_event, iter_event, block_send, released, listener,
                   open, all_waited, cleaned>>

\* socks.append(sock)
HandlerAppend ==
    /\ thread.pc = "append"
    /\ thread' = [thread EXCEPT !.i = @ + 1, !.pc = HandlerNext("append")]
    /\ UNCHANGED <<config, cls_port, cls_server_thread, cls_socks, caller, args,
                   ready_event, iter_event, block_send, released, listener,
                   open, conns, all_waited, cleaned>>

\* _handle_socket after socket_handler has returned:
\* SocketServerThread closes the listener, DelayedSocketServerThread stores
\* the returned list in self.socks
HandleSocketReturn ==
    /\ thread.pc = "return"
    /\ IF thread.class = "DelayedSocketServerThread"
       THEN /\ thread' = [thread EXCEPT !.socks = HandlerSocks(thread.i),
                                        !.pc = "done"]
            /\ UNCHANGED listener
       ELSE /\ listener' = [listener EXCEPT !.state = "closed"]
            /\ thread' = [thread EXCEPT !.pc = "done"]
    /\ UNCHANGED <<config, cls_port, cls_server_thread, cls_socks, caller, args,
                   ready_event, iter_event, block_send, released, open,
                   conns, all_waited, cleaned>>

\* iterations of the handler's loop that have begun (passed their ready_event.set())
IterationsBegun ==
    thread.i + (IF thread.pc \in Range(SocketHandlerScript(cls)) \ {"ready_set"}
                THEN 1 ELSE 0)

\* -------------------------------------------------- the test's connections
\* scripted lines a client has received
LinesReceived(c) == Cardinality({k \in 1..Len(conns[c].s2c) : conns[c].s2c[k] \in Lines})

\* requests the handler drains on one connection
Drains == Cardinality(Range(SocketHandlerScript(cls)) \cap ConsumePcs)

\* the test is done with a connection once it has closed it or has been sent
\* the response on it, and works on its connections in the order it made them
Working(c) ==
    /\ ~conns[c].closed
    /\ \A d \in 1..(c - 1) : conns[d].closed \/ conns[d].nresp > 0

\* connections queued on the listener and not yet accepted
Pending == {c \in 1..Len(conns) : ~conns[c].accepted}

\* the test connects to (cls.host, cls.port) after start_response_handler has
\* returned; the connection is queued when the socket bound to that port is
\* listening and its queue has room
ClientConnect ==
    /\ caller.pc = "returned"
    /\ Len(conns) < args.num
    /\ listener.state = "listening"
    /\ listener.port = cls_port
    /\ Cardinality(Pending) < Backlog + 1
    /\ conns' = Append(conns,
            [c2s |-> <<>>, s2c |-> <<>>, nreq |-> 0, closed |-> FALSE,
             accepted |-> FALSE, nresp |-> 0])
    /\ all_waited' = (all_waited /\ iter_event)
    /\ UNCHANGED <<config, cls_port, cls_server_thread, cls_socks, caller, args,
                   thread, ready_event, iter_event, block_send, released,
                   listener, open, cleaned>>

\* the client sends a request that ends in CRLF; a lockstep client does so
\* once for each scripted line it has received
ClientSend(c, r) ==
    /\ Working(c)
    /\ conns[c].nreq < Drains
    /\ Len(conns[c].c2s) <= Len(r)
    /\ client = "lockstep" => LinesReceived(c) > conns[c].nreq
    /\ conns' = [conns EXCEPT ![c].c2s = @ \o r, ![c].nreq = @ + 1]
    /\ UNCHANGED <<config, cls_port, cls_server_thread, cls_socks, caller, args,
                   thread, ready_event, iter_event, block_send, released,
                   listener, open, all_waited, cleaned>>

\* the client closes its end; a lockstep client does so after the response
ClientClose(c) ==
    /\ ~conns[c].closed
    /\ client = "lockstep" => conns[c].nresp > 0
    /\ client = "free" => Working(c)
    /\ conns' = [conns EXCEPT ![c].closed = TRUE]
    /\ UNCHANGED <<config, cls_port, cls_server_thread, cls_socks, caller, args,
                   thread, ready_event, iter_event, block_send, released,
                   listener, open, all_waited, cleaned>>

\* ------------------------------------------------------ garbage collection
\* accepted sockets some live object still refers to
ReferencedSocks ==
    Range(cls_socks) \cup Range(thread.socks)
        \cup (IF thread.pc \in HandlerPcs \cup {"return"}
              THEN Accepted ELSE {})

\* the thread has ended without closing its listening socket
ListenerDropped ==
    /\ listener.state \in {"created", "bound", "listening"}
    /\ thread.pc \in EndedPcs

\* a socket object nothing refers to is closed when it is collected
Finalize ==
    /\ open \ ReferencedSocks # {} \/ ListenerDropped
    /\ open' = open \cap ReferencedSocks
    /\ listener' = IF ListenerDropped
                   THEN [listener EXCEPT !.state = "closed"] ELSE listener
    /\ UNCHANGED <<config, cls_port, cls_server_thread, cls_socks, caller, args,
                   thread, ready_event, iter_event, block_send, released,
                   conns, all_waited, cleaned>>

\* ------------------------------------------------------- specification
Next ==
    \/ \E a \in CallArgs(cls) : StartResponseHandler(a)
    \/ Tick
    \/ WaitReturns
    \/ CheckIsSet
    \/ StoreSocks
    \/ Cleanup
    \/ ReleaseGate
    \/ ThreadSocket
    \/ ThreadBind
    \/ ThreadListen
    \/ ThreadReadyEvent
    \/ HandlerFor
    \/ HandlerReadySet
    \/ HandlerAccept
    \/ HandlerSendLine
    \/ consume_socket
    \/ HandlerBlockWait
    \/ HandlerBlockClear
    \/ HandlerSend
    \/ HandlerAppend
    \/ HandleSocketReturn
    \/ ClientConnect
    \/ \E c \in 1..Len(conns), r \in Requests : ClientSend(c, r)
    \/ \E c \in 1..Len(conns) : ClientClose(c)
    \/ Finalize

Spec == Init /\ [][Next]_vars

FtpSpec == InitFtp /\ [][Next]_vars

\* a step of the server thread
ThreadStep ==
    \/ ThreadSocket
    \/ ThreadBind
    \/ ThreadListen
    \/ ThreadReadyEvent
    \/ HandlerFor
    \/ HandlerReadySet
    \/ HandlerAccept
    \/ HandlerSendLine
    \/ consume_socket
    \/ HandlerBlockWait
    \/ HandlerBlockClear
    \/ HandlerSend
    \/ HandlerAppend
    \/ HandleSocketReturn

\* the server thread is scheduled whenever it can run, and a test that has a
\* release of the gate left to make makes it
LiveSpec == Init /\ [][Next]_vars /\ WF_vars(ThreadStep) /\ WF_vars(ReleaseGate)

\* ------------------------------- two callers and several harness classes
\* the statements of _start_server a caller on class c executes, in order
\* (cls.port = cls.server_thread.port is a read and then a store)
StartServerScript(c) ==
    IF c = IPV4
    THEN <<"create", "use_ipv6", "start", "wait", "is_set", "read_port",
           "store_port">>
    ELSE IF c \in DelayedClasses
    THEN <<"create", "start", "wait", "is_set", "read_port", "store_port",
           "store_socks">>
    ELSE <<"create", "start", "wait", "is_set", "read_port", "store_port">>

\* the statement after statement pc ("returned": _start_server has returned)
CallerNext(c, pc) ==
    LET script == StartServerScript(c)
        j == CHOOSE i \in 1..Len(script) : script[i] = pc
    IN IF j = Len(script) THEN "returned" ELSE script[j + 1]

\* cls.port = ... assigns on a fixed class
AttrOwner_Base(c) == Base

\* the class an assignment cls.port = ..., cls.server_thread = ... or
\* cls.socks = ... in a classmethod called on class c writes to
AttrOwner(c) == c

\* the class dictionaries after cls.a = v in a classmethod called on class c
Assign(c, a, v) == [class_dict EXCEPT ![AttrOwner(c)][a] = v]

\* cls.server_thread as the caller k reads it
ServerThreadOf(k) == Lookup(callers[k].cls, "server_thread")

Advance(k) ==
    [callers EXCEPT ![k].pc = CallerNext(callers[k].cls, callers[k].pc)]

Raised(k) == [callers EXCEPT ![k].pc = "raised"]

\* cls.server_thread = cls.server_thread_class(socket_handler=..., ...)
CallCreate(k) ==
    /\ callers[k].pc = "create"
    /\ threads' = [threads EXCEPT ![k] =
            [NoServerThread EXCEPT
                !.pc = "created",
                !.class = server_thread_class(callers[k].cls),
                !.socks = IF callers[k].cls \in DelayedClasses THEN k ELSE NoServer]]
    /\ class_dict' = Assign(callers[k].cls, "server_thread", k)
    /\ callers' = Advance(k)
    /\ UNCHANGED <<HAS_IPV6_AND_DNS, harnessvars, HAS_IPV6, USE_IPV6>>

\* IPV4SocketDummyServer without cls.server_thread.USE_IPV6 = False
CallUseIPv6_Skipped(k) ==
    /\ callers[k].pc = "use_ipv6"
    /\ callers' = Advance(k)
    /\ UNCHANGED <<HAS_IPV6_AND_DNS, harnessvars, HAS_IPV6, USE_IPV6, class_dict,
                   threads>>

\* IPV4SocketDummyServer: cls.server_thread.USE_IPV6 = False
CallUseIPv6(k) ==
    /\ callers[k].pc = "use_ipv6"
    /\ threads' = [threads EXCEPT ![ServerThreadOf(k)].USE_IPV6 = "False"]
    /\ callers' = Advance(k)
    /\ UNCHANGED <<HAS_IPV6_AND_DNS, harnessvars, HAS_IPV6, USE_IPV6, class_dict>>

\* cls.server_thread.start(): a thread can be started once, a second start()
\* raises RuntimeError
CallStart(k) ==
    /\ callers[k].pc = "start"
    /\ LET t == ServerThreadOf(k)
       IN IF threads[t].pc = "created"
          THEN /\ threads' = [threads EXCEPT ![t].pc = "socket"]
               /\ callers' = Advance(k)
          ELSE /\ callers' = Raised(k)
               /\ UNCHANGED threads
    /\ UNCHANGED <<HAS_IPV6_AND_DNS, harnessvars, HAS_IPV6, USE_IPV6, class_dict>>

\* ready_event.wait(5) returns: the caller's event is set, or 5 have passed
CallWait(k) ==
    /\ callers[k].pc = "wait"
    /\ callers' = Advance(k)
    /\ UNCHANGED <<HAS_IPV6_AND_DNS, harnessvars, HAS_IPV6, USE_IPV6, class_dict,
                   threads>>

\* if not ready_event.is_set(): raise Exception(...)
CallIsSet(k) ==
    /\ callers[k].pc = "is_set"
    /\ callers' = IF threads[k].ready THEN Advance(k) ELSE Raised(k)
    /\ UNCHANGED <<HAS_IPV6_AND_DNS, harnessvars, HAS_IPV6, USE_IPV6, class_dict,
                   threads>>

\* the right-hand side of cls.port = cls.server_thread.port; a thread that
\* has not bound has no attribute port (AttributeError)
CallReadPort(k) ==
    /\ callers[k].pc = "read_port"
    /\ LET t == ServerThreadOf(k)
       IN callers' = IF threads[t].port = NoPort
                     THEN Raised(k)
                     ELSE [Advance(k) EXCEPT ![k].val = threads[t].port]
    /\ UNCHANGED <<HAS_IPV6_AND_DNS, harnessvars, HAS_IPV6, USE_IPV6, class_dict,
                   threads>>

\* the store of cls.port = cls.server_thread.port
CallStorePort(k) ==
    /\ callers[k].pc = "store_port"
    /\ class_dict' = Assign(callers[k].cls, "port", callers[k].val)
    /\ callers' = Advance(k)
    /\ UNCHANGED <<HAS_IPV6_AND_DNS, harnessvars, HAS_IPV6, USE_IPV6, threads>>

\* DelayedCloseSocketDummyServer: cls.socks = cls.server_thread.socks
CallStoreSocks(k) ==
    /\ callers[k].pc = "store_socks"
    /\ class_dict' = Assign(callers[k].cls, "socks", threads[ServerThreadOf(k)].socks)
    /\ callers' = Advance(k)
    /\ UNCHANGED <<HAS_IPV6_AND_DNS, harnessvars, HAS_IPV6, USE_IPV6, threads>>

\* self.USE_IPV6 of a thread object: its own attribute if it was given one,
\* the attribute of class SocketServerThread otherwise
UsesIPv6(t) == IF t.USE_IPV6 = "False" THEN FALSE ELSE USE_IPV6

\* sock = socket.socket(AF_INET6 or AF_INET) in server thread k
ServerSocket(k) ==
    /\ threads[k].pc = "socket"
    /\ threads' = [threads EXCEPT
            ![k].family = IF UsesIPv6(threads[k]) THEN "AF_INET6" ELSE "AF_INET",
            ![k].state = "created",
            ![k].pc = StartServerNext("socket")]
    /\ UNCHANGED <<HAS_IPV6_AND_DNS, harnessvars, HAS_IPV6, USE_IPV6, class_dict,
                   callers>>

\* sock.bind((self.host, 0)); self.port = sock.getsockname()[1]
ServerBind(k) ==
    /\ threads[k].pc = "bind"
    /\ \/ threads' = [threads EXCEPT ![k].state = "bound", ![k].port = k,
                                      ![k].pc = StartServerNext("bind")]
       \/ threads' = [threads EXCEPT ![k].pc = "bind_raised"]
    /\ UNCHANGED <<HAS_IPV6_AND_DNS, harnessvars, HAS_IPV6, USE_IPV6, class_dict,
                   callers>>

\* sock.listen(0)
ServerListen(k) ==
    /\ threads[k].pc = "listen"
    /\ \/ threads' = [threads EXCEPT ![k].state = "listening",
                                      ![k].pc = StartServerNext("listen")]
       \/ threads' = [threads EXCEPT ![k].pc = "listen_raised"]
    /\ UNCHANGED <<HAS_IPV6_AND_DNS, harnessvars, HAS_IPV6, USE_IPV6, class_dict,
                   callers>>

\* self.ready_event.set(); the handler then waits in accept
ServerReady(k) ==
    /\ threads[k].pc = "ready_event"
    /\ threads' = [threads EXCEPT ![k].ready = TRUE,
                                  ![k].pc = StartServerNext("ready_event")]
    /\ UNCHANGED <<HAS_IPV6_AND_DNS, harnessvars, HAS_IPV6, USE_IPV6, class_dict,
                   callers>>

ClassNext ==
    \/ \E k \in Callers : CallCreate(k)
    \/ \E k \in Callers : CallUseIPv6(k)
    \/ \E k \in Callers : CallStart(k)
    \/ \E k \in Callers : CallWait(k)
    \/ \E k \in Callers : CallIsSet(k)
    \/ \E k \in Callers : CallReadPort(k)
    \/ \E k \in Callers : CallStorePort(k)
    \/ \E k \in Callers : CallStoreSocks(k)
    \/ \E k \in Callers : ServerSocket(k)
    \/ \E k \in Callers : ServerBind(k)
    \/ \E k \in Callers : ServerListen(k)
    \/ \E k \in Callers : ServerReady(k)

\* two callers, each on its own harness class
ClassSpec == InitClasses /\ [][ClassNext]_vars

\* two callers on one harness class
RaceSpec == InitRace /\ [][ClassNext]_vars

\* ===================================================================== claims
\* C1: the ready event given to the server thread is set only once the
\* listening socket is bound and listen() has returned, and it is set before
\* the handler's first accept: whenever the event is set the listener is
\* listening (or was, and has been closed since), and the handler neither
\* stands at accept nor has accepted a connection while the event is unset.
C1_ReadyAfterListenBeforeAccept ==
    /\ ready_event => /\ listener.state \in {"listening", "closed"}
                      /\ listener.port # NoPort
                      /\ thread.pc \notin {"socket", "bind", "listen",
                                           "bind_raised", "listen_raised"}
    /\ (thread.pc \in HandlerPcs \/ Accepted # {}) => ready_event

\* the event is set, the listener listens and a connection has been accepted
C1_Witness ==
    /\ ready_event
    /\ listener.state = "listening"
    /\ Accepted # {}

\* the bytes of the response a client has been sent on connection c
ResponseBytes(c) ==
    LET NotLine(b) == b \notin Lines IN SelectSeq(conns[c].s2c, NotLine)

\* sock.send(response) calls made on the connections of the latest server
RECURSIVE ResponsesSentUpTo(_)
ResponsesSentUpTo(k) ==
    IF k = 0 THEN 0 ELSE conns[k].nresp + ResponsesSentUpTo(k - 1)

ResponsesSent == ResponsesSentUpTo(Len(conns))

\* socket_handler has returned
HandlerReturned == thread.pc \in {"return", "done"}

\* C2: start_response_handler(response, num=k), k >= 1: never more than k
\* connections are accepted, never more than one payload is sent on a
\* connection, and when the handler has returned exactly k connections were
\* accepted and each has been sent the payload once and completely.
C2_ExactlyKComplete ==
    /\ Cardinality(Accepted) <= args.num
    /\ \A c \in 1..Len(conns) : conns[c].nresp <= 1
    /\ HandlerReturned =>
        /\ Cardinality(Accepted) = args.num
        /\ \A c \in Accepted : /\ conns[c].nresp = 1
                               /\ ResponseBytes(c) = args.response

\* C3: delayed-close harness and FTP harness: when cleanup() has run after
\* the handler returned, none of the sockets the handler accepted is open.
C3_CleanupClosesAccepted ==
    (cls \in DelayedClasses /\ cleaned) =>
        \A c \in Accepted : c \notin open

\* C4: with a pacing gate, the response is sent on the c-th connection only
\* after the gate has been released at least c times, and the number of
\* responses sent never exceeds the number of releases.
C4_GateBeforeSend ==
    args.gated =>
        /\ \A c \in 1..Len(conns) : conns[c].nresp > 0 => released >= c
        /\ ResponsesSent <= released

\* a gated handler has sent the response on its second connection
C4_Witness ==
    /\ args.gated
    /\ Len(conns) = 2
    /\ conns[2].nresp > 0
    /\ released = 2

\* C6: consume_socket ends when a read returns zero bytes: the handler is
\* never still in a drain after recv returned b''.
C6_EofEndsDrain == ~(thread.pc \in ConsumePcs /\ thread.eof)

\* bind or listen raised in the latest server thread
StartFailed == thread.pc \in {"bind_raised", "listen_raised"}

\* C7: if bind or listen fails in the server thread, the ready event is never
\* set, _start_server does not return normally (it is left only after the
\* whole wait of 5, by raising), and cls.port keeps the value it had before
\* the call.
C7_StartupFailure ==
    StartFailed =>
        /\ ~ready_event
        /\ caller.pc \in {"wait", "is_set", "raised"}
        /\ caller.pc \in {"is_set", "raised"} => caller.elapsed = WaitTimeout
        /\ cls_port = caller.prev_port

\* a second call has raised after bind or listen failed, and cls.port is
\* still the port of the first server
C7_Witness ==
    /\ StartFailed
    /\ caller.pc = "raised"
    /\ cls_port # NoPort

\* C8: when start_response_handler has returned normally (and the test has
\* not connected yet), cls.port is the port the system assigned to the
\* listening socket of the thread this call started, and that socket is
\* listening, so that a connection attempt is queued, not refused.
C8_PortOfListeningSocket ==
    (caller.pc = "returned" /\ conns = <<>>) =>
        /\ cls_server_thread = "thread"
        /\ cls_port # NoPort
        /\ cls_port = thread.port
        /\ cls_port = listener.port
        /\ listener.state = "listening"

\* the second call on the class has returned, with another port than the first
C8_Witness ==
    /\ caller.pc = "returned"
    /\ conns = <<>>
    /\ cls_port = 2

\* C9: a test that waits on the returned event before each connection
\* attempt never makes its i-th attempt before the handler has begun
\* iteration i (has passed the ready_event.set() of iteration i).
C9_AttemptAfterIterationBegan ==
    [][(Len(conns') = Len(conns) + 1 /\ all_waited')
            => IterationsBegun >= Len(conns')]_vars

\* C10: once the handler has returned and the thread has ended (and, for the
\* delayed-close harnesses, cleanup() has then run), the listening socket
\* and every accepted socket are closed.
C10_NoSocketLeftOpen ==
    (thread.pc = "done" /\ (cls \in DelayedClasses => cleaned)) =>
        /\ listener.state = "closed"
        /\ \A c \in Accepted : c \notin open

\* what a client of the FTP harness is to receive on a connection
Expected ==
    args.welcome_first \o args.user_resp \o args.type_i_resp \o args.pasv_resp
        \o args.response

IsPrefix(a, b) == Len(a) <= Len(b) /\ a = Take(b, Len(a))

\* the handler waits for a request on connection c that the client, having
\* answered every line it was sent, will not send
WaitingOnEachOther(c) ==
    /\ thread.pc \in ConsumePcs
    /\ c = Current
    /\ conns[c].c2s = <<>>
    /\ ~conns[c].closed
    /\ conns[c].nreq = LinesReceived(c)

\* C5: FTP harness, client that sends a request after each scripted line it
\* receives: what it has received is always the beginning of welcome, login,
\* binary-mode, passive-mode line and response (without the payloads passed
\* empty), it is all of it once the response was sent, and the client is
\* never left waiting for a line while the handler waits for a request.
C5_LockstepClientReceivesScript ==
    (cls = FTP /\ client = "lockstep") =>
        \A c \in 1..Len(conns) :
            /\ IsPrefix(conns[c].s2c, Expected)
            /\ conns[c].nresp > 0 => conns[c].s2c = Expected
            /\ ~WaitingOnEachOther(c)

\* the place of the last consume_socket call before statement pc in the loop
\* body (0: none)
LastDrainBefore(pc) ==
    LET script == SocketHandlerScript(cls)
        k == CHOOSE j \in 1..Len(script) : script[j] = pc
        drains == {j \in 1..(k - 1) : script[j] \in ConsumePcs}
    IN IF drains = {} THEN 0
       ELSE CHOOSE j \in drains : \A d \in drains : d <= j

\* a statement between the last consume_socket call before pc and pc has
\* sent bytes to the client
SentSinceDrain(pc) ==
    LET script == SocketHandlerScript(cls)
        k == CHOOSE j \in 1..Len(script) : script[j] = pc
    IN \E j \in (LastDrainBefore(pc) + 1)..(k - 1) :
        /\ script[j] \in LinePcs
        /\ LinePayload(script[j]) # <<>>

\* C11: the response is sent on a connection only after a request has been
\* drained on it, and the handler has sent the client nothing between that
\* drain and the response.
C11_ResponseFollowsDrainedRequest ==
    [][(thread.pc = "send" /\ thread'.pc # "send")
            => (LastDrainBefore("send") > 0 /\ ~SentSinceDrain("send"))]_vars

\* every element of the list x is a socket, so that sock.close() can be
\* called on it
IsSocketList(x) == \A k \in 1..Len(x) : x[k] >= 1

BetweenWaitAndClear == args.gated /\ thread.pc = "block_clear"

\* C14: the gate is reset atomically with the consumption of a release: the
\* test never gets to release the gate between the return of iteration i's
\* block_send.wait() and iteration i's block_send.clear(), where the clear
\* would erase the release.
C14_GateResetAtomic ==
    [][(released' = released + 1) => ~BetweenWaitAndClear]_vars

\* which of the consume_socket calls of an iteration statement pc is
DrainIndex(pc) ==
    CASE pc = "consume_1" -> 1
      [] pc = "consume_2" -> 2
      [] pc = "consume_3" -> 3

\* the handler is in consume_socket with nothing left to read, although the
\* client, still connected, has sent the whole request this drain is for
DrainStuck ==
    /\ thread.pc \in ConsumePcs
    /\ conns[Current].c2s = <<>>
    /\ ~conns[Current].closed
    /\ conns[Current].nreq >= DrainIndex(thread.pc)

\* C15: consume_socket completes once the client has sent a request ending
\* in CRLF, however the bytes are split across reads or joined in one read:
\* the handler is never left in a drain, with nothing more to read, whose
\* request the client has sent completely.
C15_DrainCompletesHoweverSplit == ~DrainStuck

\* the bytes the server has sent are the same before and after a step
NothingSent == \A c \in 1..Len(conns) : conns'[c].s2c = conns[c].s2c

\* C16: once accept, recv or send has raised in the server thread, the thread
\* has ended: until the test starts another server it takes no further step
\* (it accepts no connection, sends nothing, sets no event), and no step
\* raises an exception in the caller: the failure shows only in what the
\* thread no longer does.
C16_IoErrorEndsThread ==
    [][thread.exc =>
        /\ thread.pc = "io_raised"
        /\ \/ thread'.pc = "socket"
           \/ /\ thread' = thread
              /\ Accepted' = Accepted
              /\ NothingSent
              /\ iter_event' = iter_event
              /\ caller'.pc = "raised" => caller.pc = "raised"]_vars

\* the second iteration's I/O raised, and a connection made by the test is
\* left unaccepted
C16_Witness ==
    /\ thread.exc
    /\ thread.i = 1
    /\ caller.pc = "returned"
    /\ Len(conns) > Cardinality(Accepted)

\* block_send.clear() calls the handler has made
GateConsumed == thread.i + (IF thread.pc \in {"send", "append"} THEN 1 ELSE 0)

\* every release of the gate has been consumed by an iteration or is still
\* held by the flag: none was made while the flag was set
NoReleaseLost ==
    args.gated => released = GateConsumed + (IF block_send THEN 1 ELSE 0)

\* the test has made its num connections and has sent, on each, the requests
\* an iteration drains, and has closed none of them
AllRequestsSent ==
    /\ caller.pc = "returned"
    /\ Len(conns) = args.num
    /\ \A c \in 1..Len(conns) : conns[c].nreq = Drains /\ ~conns[c].closed

\* socket_handler has completed its num iterations and the thread has ended
\* (or an I/O call raised in it)
HandlerTerminated == (thread.pc = "done" /\ thread.i = args.num) \/ thread.exc

\* C17: with the server thread scheduled fairly and no release of the gate
\* lost, once the num clients have all connected and sent their requests the
\* handler completes its num iterations and returns, and the thread ends.
C17_HandlerTerminates ==
    ([]NoReleaseLost) => (AllRequestsSent ~> HandlerTerminated)

\* the address family a server thread uses when nothing overrides it
DefaultFamily == IF HAS_IPV6_AND_DNS THEN "AF_INET6" ELSE "AF_INET"

\* C13: whatever the two capability flags are, the socket of a server started
\* through IPV4SocketDummyServer is an AF_INET socket, the server thread of
\* every other harness class uses the default family, before and after, and
\* the class attribute SocketServerThread.USE_IPV6 keeps its value.
C13_IPv4HarnessUsesIPv4 ==
    /\ \A k \in Callers :
        callers[k].cls = IPV4 => threads[k].family \in {None, "AF_INET"}
    /\ \A k \in Callers :
        (callers[k].pc # "off" /\ callers[k].cls # IPV4)
            => threads[k].family \in {None, DefaultFamily}
    /\ USE_IPV6 = HAS_IPV6_AND_DNS

\* both flags are true, the IPv4-only harness listens on an AF_INET socket
\* and another harness on an AF_INET6 socket
C13_Witness ==
    /\ HAS_IPV6_AND_DNS
    /\ HAS_IPV6
    /\ \E k, j \in Callers :
        /\ callers[k].cls = IPV4
        /\ threads[k].state = "listening"
        /\ threads[k].family = "AF_INET"
        /\ callers[k].pc = "returned"
        /\ threads[j].state = "listening"
        /\ threads[j].family = "AF_INET6"

\* the class the two racing callers use
RaceClass == callers[1].cls

\* C18: two callers on one harness class: a call that has returned normally
\* has recorded the port of a server that is listening, and when both calls
\* have returned the port stored on the class is the port of the server
\* thread stored on the class.
C18_ConcurrentCallersAgree ==
    /\ \A k \in Callers :
        callers[k].pc = "returned" =>
            \E t \in Callers : /\ threads[t].port = callers[k].val
                               /\ threads[t].state = "listening"
    /\ (\A k \in Callers : callers[k].pc = "returned") =>
            Lookup(RaceClass, "port")
                = threads[Lookup(RaceClass, "server_thread")].port

\* class d is derived, directly or not, from class c
RECURSIVE Inherits(_, _)
Inherits(d, c) ==
    /\ d # Object
    /\ \/ Parent(d) = c
       \/ Inherits(Parent(d), c)

\* attribute a as class d shows it after the step
LookupNext(d, a) == LookupIn(class_dict', d, a)

\* caller k takes a step of its call
Steps(k) == callers'[k] # callers[k]

\* C19 as stated: a step of a call on one harness class leaves the port,
\* server_thread and socks that every other harness class shows unchanged.
C19_EveryOtherClassUnchanged ==
    [][\A k \in Callers :
        Steps(k) =>
            \A d \in HarnessClasses \ {callers[k].cls} : \A a \in Attrs :
                LookupNext(d, a) = Lookup(d, a)]_vars

\* C19 amended: a step of a call on harness class c changes the __dict__ of
\* no other class, and leaves what class d shows unchanged for every other
\* class d that is not derived from c (the base class, a sibling, the copy)
\* or that has set the attribute itself.
C19_OwnStatePerClass ==
    [][\A k \in Callers :
        Steps(k) =>
            \A d \in HarnessClasses \ {callers[k].cls} :
                /\ class_dict'[d] = class_dict[d]
                /\ \A a \in Attrs :
                    (~Inherits(d, callers[k].cls) \/ class_dict[d][a] # Unset)
                        => LookupNext(d, a) = Lookup(d, a)]_vars

\* the delayed-close harness and its base class both serve, each with the
\* port, thread and list of its own call, and the FTP harness, which has
\* started nothing, shows those of the delayed-close harness
C19_Witness ==
    \E k, j \in Callers :
        /\ callers[k].cls = Delayed /\ callers[k].pc = "returned"
        /\ callers[j].cls = Base /\ callers[j].pc = "returned"
        /\ threads[k].state = "listening" /\ threads[j].state = "listening"
        /\ \A a \in Attrs : class_dict[Delayed][a] = k
        /\ class_dict[Base]["port"] = j /\ class_dict[Base]["server_thread"] = j
        /\ Lookup(FTP, "port") = k

====
